---- MODULE Spec2Model ----
(***************************************************************************)
(* Off-chain operator of the cumulative Merkle distributor                *)
(* (lidofinance/vaults-wrapper-distributor).                              *)
(*                                                                         *)
(* The model holds the chain (distributor contract, wrapper, reward       *)
(* tokens, event logs), the blob store, and one operator invocation of    *)
(* the `generate` command, cut at its suspension points, plus the `proof` *)
(* command.  Addresses are small integers (ZeroAddress is 0); a Merkle    *)
(* root is the bag of ABI-encoded leaves it commits to (a collision-free  *)
(* hash); a CID is the position of the content in the store (0 is the     *)
(* empty string).  Amounts inside a blob are decimal strings, modelled as *)
(* sequences of digits.                                                    *)
(***************************************************************************)
EXTENDS Integers, Sequences, FiniteSets, Bags

\* ---------------------------------------------------------------- bounds
NumUsers == 2
NumTokens == 2
\* Transactions the environment sends (inflows, deposits, redemptions, claims),
\* how many of them land while an invocation runs, and faults (a read that
\* fails, a log that does not decode, a blob the store serves altered).
MaxForeign == 2
MaxMidRound == 1
MaxFaults == 1
\* Invocations of the generate command.
MaxRuns == 3

Users == 1..NumUsers
Tokens == 1..NumTokens
ZeroAddress == 0

\* Amounts the environment moves in one transaction.
InflowAmounts == {4}
DepositAmounts == {1}
\* options.operatorFee: a percentage typed with up to two decimals, held as its
\* hundredths (5000 is "50.0", 410 is "4.1").  Here 0, 50 and 100 percent.
FeePercents == {0, 5000, 10000}

\* Typed percentages p for which parseFloat(p) * 100 falls just below the whole
\* number in IEEE-754 double arithmetic (0.29 * 100 = 28.999999999999996,
\* 4.1 * 100 = 409.99999999999994); no whole percent is among them.
BelowInDouble == {29, 57, 58, 113, 230, 410, 460, 510}

\* BigInt(1e18) in the source; scaled to the integers TLC computes with.
precision == 1000

\* ethers.ZeroHash: no tree has this root (a tree has at least one leaf).
ZeroHash == EmptyBag

None == << >>
Some(x) == << x >>

\* --------------------------------------------------------------- helpers
RECURSIVE SumOver(_, _)
SumOver(f, S) ==
  IF S = {} THEN 0
  ELSE LET x == CHOOSE y \in S : TRUE IN f[x] + SumOver(f, S \ {x})

RECURSIVE SeqSum(_)
SeqSum(s) == IF s = << >> THEN 0 ELSE Head(s) + SeqSum(Tail(s))

Range(s) == { s[i] : i \in DOMAIN s }

\* bigint.toString(): the decimal digits, most significant first.
RECURSIVE toString(_)
toString(n) ==
  IF n < 10 THEN << n >> ELSE Append(toString(n \div 10), n % 10)

\* BigInt(string): the number a decimal string denotes.
RECURSIVE BigInt(_)
BigInt(s) ==
  IF s = << >> THEN 0
  ELSE 10 * BigInt(SubSeq(s, 1, Len(s) - 1)) + s[Len(s)]

\* The comparator of allClaims.sort: recipient first, then token.
ClaimBefore(a, b) ==
  \/ a.recipient < b.recipient
  \/ a.recipient = b.recipient /\ a.token <= b.token

RECURSIVE InsertSorted(_, _)
InsertSorted(c, s) ==
  IF s = << >> THEN << c >>
  ELSE IF ClaimBefore(Head(s), c) THEN << Head(s) >> \o InsertSorted(c, Tail(s))
  ELSE << c >> \o s

\* Array.prototype.sort (stable) with the comparator above.
RECURSIVE SortClaims(_)
SortClaims(s) ==
  IF s = << >> THEN << >>
  ELSE InsertSorted(s[Len(s)], SortClaims(SubSeq(s, 1, Len(s) - 1)))

\* The leaf a values entry [recipient, token, amount-string] encodes to under
\* ['address', 'address', 'uint256'].
Leaf(value) == << value[1], value[2], BigInt(value[3]) >>

RECURSIVE LeafBag(_)
LeafBag(values) ==
  IF values = << >> THEN EmptyBag
  ELSE SetToBag({Leaf(Head(values))}) (+) LeafBag(Tail(values))

\* A values list that misses the last claim.
MerkleValuesDropLast(claims) ==
  [ i \in 1..(Len(claims) - 1) |->
      << claims[i].recipient, claims[i].token, toString(claims[i].amount) >> ]

\* generateMerkleTree: the values handed to StandardMerkleTree.of.
MerkleValues(claims) ==
  [ i \in DOMAIN claims |->
      << claims[i].recipient, claims[i].token, toString(claims[i].amount) >> ]

\* StandardMerkleTree.of(values).root
MerkleRoot(values) == LeafBag(values)

\* A tree build that does not look at the number of claims.
NoClaimsUnchecked(claims) == FALSE

\* generateMerkleTree throws 'No claims to process' on an empty list.
NoClaims(claims) == Len(claims) = 0

\* validatePreviousDistribution that accepts a blob without values.
validatePreviousDistributionLax(dist, expectedMerkleRoot) ==
  LeafBag(dist.values) = expectedMerkleRoot \/ dist.values = << >>

\* validatePreviousDistribution(previousDistribution, expectedMerkleRoot)
validatePreviousDistribution(dist, expectedMerkleRoot) ==
  LET claims == [ i \in DOMAIN dist.values |->
                    [ recipient |-> dist.values[i][1],
                      token     |-> dist.values[i][2],
                      amount    |-> BigInt(dist.values[i][3]) ] ]
  IN IF NoClaims(claims) THEN FALSE
     ELSE MerkleRoot(MerkleValues(claims)) = expectedMerkleRoot


\* ----------------------------------------------------------------- state
VARIABLES
  \* chain
  height,            \* provider.getBlockNumber()
  balanceAt,         \* balanceAt[b + 1][t]: erc20 t balanceOf(distributor) at block b
  shares,            \* wrapper.balanceOf
  depositLogs,       \* wrapper Deposit logs, in emission order: [blk, owner]
  claimedLogs,       \* distributor Claimed logs: [blk, recipient, token, amount]
  claimedOnChain,    \* the contract's paid-out cumulative per (recipient, token)
  root, cid,         \* distributor.root(), distributor.cid()
  tokenList,         \* distributor.getTokens()
  lastProcessedBlock,
  foreignTxs,        \* transactions of the environment so far
  midRoundTxs,       \* those that landed while an invocation was running
  \* blob store
  store,             \* store[c]: the content the store serves for CID c
  uploaded,          \* uploaded[c]: the content that was uploaded under CID c
  \* one `generate` invocation
  pc,                \* "idle" | "tokens" | "submit"
  outcome,           \* how the last invocation ended ("none" while one runs)
  runs,              \* invocations started
  options,           \* [operatorFee, hasSigner]
  previousInfo, previousDistribution,
  currentBlock, users, totalSupply, tokQueue,
  allClaims, totalDistributed,
  result,            \* what generateDistribution returned
  \* the `proof` command's output file
  proofFile,
  \* history (not program state)
  inflowLogs,        \* token transfers into the distributor: [blk, token, amount]
  chainChanged,      \* a foreign transaction was mined since the invocation started
  faultCount,        \* faults so far
  faults,            \* [rpc, decode]: what failed inside the invocation
  roundAlloc,        \* this invocation's new allocation per (user, token)
  roundDistributable, roundActual,
  roundStart,        \* [root, cid, uploads] when the invocation started
  lastPublished, prevPublished, lastAlloc, sumAlloc, rounds,
  lastActual,        \* the actual distributable per token of the latest published round
  sumDistributable   \* per token, the new distributable summed over the published rounds

chainVars == << height, balanceAt, shares, depositLogs, claimedLogs,
                claimedOnChain, root, cid, lastProcessedBlock, inflowLogs,
                foreignTxs, midRoundTxs, tokenList >>
storeVars == << store, uploaded >>
roundVars == << pc, outcome, runs, options, previousInfo, previousDistribution,
                currentBlock, users, totalSupply, tokQueue, allClaims,
                totalDistributed, result, faults, roundAlloc,
                roundDistributable, roundActual, roundStart, faultCount >>
histVars  == << lastPublished, prevPublished, lastAlloc, sumAlloc, rounds,
                lastActual, sumDistributable >>
vars == << chainVars, storeVars, roundVars, histVars, proofFile, chainChanged >>

ZeroAlloc == [ u \in Users |-> [ t \in Tokens |-> 0 ] ]
NoAmounts == [ t \in Tokens |-> 0 ]

\* A freshly deployed distributor, and an operator that has not run yet.
Constructed ==
  /\ height = 0
  /\ claimedLogs = << >>
  /\ claimedOnChain = ZeroAlloc
  /\ root = ZeroHash
  /\ cid = 0
  /\ lastProcessedBlock = 0
  /\ foreignTxs = 0
  /\ midRoundTxs = 0
  /\ store = << >>
  /\ uploaded = << >>
  /\ pc = "idle"
  /\ outcome = "none"
  /\ runs = 0
  /\ previousInfo = None
  /\ previousDistribution = None
  /\ currentBlock = 0
  /\ users = << >>
  /\ totalSupply = 0
  /\ tokQueue = << >>
  /\ allClaims = << >>
  /\ totalDistributed = << >>
  /\ result = None
  /\ proofFile = None
  /\ chainChanged = FALSE
  /\ faultCount = 0
  /\ faults = [ rpc |-> FALSE, decode |-> FALSE ]
  /\ roundAlloc = ZeroAlloc
  /\ roundDistributable = NoAmounts
  /\ roundActual = NoAmounts
  /\ roundStart = [ root |-> ZeroHash, cid |-> 0, uploads |-> 0 ]
  /\ lastPublished = None
  /\ prevPublished = None
  /\ lastAlloc = ZeroAlloc
  /\ lastActual = NoAmounts
  /\ sumAlloc = ZeroAlloc
  /\ sumDistributable = NoAmounts
  /\ rounds = 0

\* The operator is constructed with its options against a chain on which both
\* users hold wrapper shares from deposits in block 0, token 1 is funded and
\* nothing is published.
Init ==
  /\ Constructed
  /\ balanceAt = << [ t \in Tokens |-> IF t = 1 THEN 4 ELSE 0 ] >>
  /\ shares = [ u \in Users |-> IF u = 1 THEN 1 ELSE 3 ]
  /\ depositLogs = [ i \in 1..NumUsers |-> [ blk |-> 0, owner |-> i ] ]
  /\ tokenList = [ t \in Tokens |-> t ]
  /\ inflowLogs = << [ blk |-> 0, token |-> 1, amount |-> 4 ] >>
  /\ options \in [ operatorFee : FeePercents, hasSigner : BOOLEAN ]

\* Balances, fees and lists a single operator run is computed from.
ShareAmounts == {0, 1, 2, 3, precision, 3 * precision}
BalanceAmounts == {0, 3, 4, precision, 2 * precision}
FeeInputs == FeePercents \cup {410, 1000}
\* Owners of the Deposit logs emitted so far; a log may name the zero address.
OwnerLists == { << >>, << 1 >>, << ZeroAddress, 2 >>, << 1, 2 >> }
TokenLists == { << >>, << 1 >>, [ t \in Tokens |-> t ] }

\* The operator is constructed against any chain at block 0: any wrapper
\* balances (deposited or received by transfer), any Deposit logs, any token
\* list and any funding of the listed tokens.
InitAnyChain ==
  /\ Constructed
  /\ \E b1 \in BalanceAmounts, b2 \in {0, 4} :
       /\ balanceAt = << [ t \in Tokens |-> IF t = 1 THEN b1 ELSE b2 ] >>
       /\ inflowLogs =
            SelectSeq([ t \in Tokens |->
                          [ blk |-> 0, token |-> t, amount |-> IF t = 1 THEN b1 ELSE b2 ] ],
                      LAMBDA l : l.amount > 0)
  /\ shares \in [ Users -> ShareAmounts ]
  /\ \E owners \in OwnerLists :
       depositLogs = [ i \in DOMAIN owners |-> [ blk |-> 0, owner |-> owners[i] ] ]
  /\ tokenList \in TokenLists
  /\ options \in [ operatorFee : FeeInputs, hasSigner : {TRUE} ]

\* ------------------------------------------------------ the environment
\* getDistributorTokenBalance(tokenAddr): balanceOf(distributor) at the latest block.
getDistributorTokenBalance(t) == balanceAt[height + 1][t]

\* A transaction of the environment lands between invocations, or among the
\* reads of a running one.
Foreign ==
  /\ foreignTxs < MaxForeign
  /\ pc = "idle" \/ midRoundTxs < MaxMidRound
  /\ foreignTxs' = foreignTxs + 1
  /\ midRoundTxs' = IF pc = "idle" THEN midRoundTxs ELSE midRoundTxs + 1
  /\ chainChanged' = TRUE

\* Every transaction is mined in a block of its own; none of them changes the
\* token list of the distributor.
Mine(newBalance) ==
  /\ height' = height + 1
  /\ balanceAt' = Append(balanceAt, newBalance)
  /\ UNCHANGED tokenList

\* Reward tokens are transferred to the distributor.
Inflow(t, a) ==
  /\ Mine([ balanceAt[height + 1] EXCEPT ![t] = @ + a ])
  /\ inflowLogs' = Append(inflowLogs, [ blk |-> height + 1, token |-> t, amount |-> a ])
  /\ UNCHANGED << shares, depositLogs, claimedLogs, claimedOnChain, root, cid,
                  lastProcessedBlock >>
  /\ Foreign
  /\ UNCHANGED << storeVars, roundVars, histVars, proofFile >>

\* wrapper.deposit: mints shares to the owner and emits Deposit.
Deposit(u, a) ==
  /\ Mine(balanceAt[height + 1])
  /\ shares' = [ shares EXCEPT ![u] = @ + a ]
  /\ depositLogs' = Append(depositLogs, [ blk |-> height + 1, owner |-> u ])
  /\ UNCHANGED << claimedLogs, claimedOnChain, root, cid, lastProcessedBlock,
                  inflowLogs >>
  /\ Foreign
  /\ UNCHANGED << storeVars, roundVars, histVars, proofFile >>

\* The owner redeems all their shares.
Withdraw(u) ==
  /\ shares[u] > 0
  /\ Mine(balanceAt[height + 1])
  /\ shares' = [ shares EXCEPT ![u] = 0 ]
  /\ UNCHANGED << depositLogs, claimedLogs, claimedOnChain, root, cid,
                  lastProcessedBlock, inflowLogs >>
  /\ Foreign
  /\ UNCHANGED << storeVars, roundVars, histVars, proofFile >>

\* distributor.claim(recipient, token, amount, proof): the leaf must be in the
\* tree of the current root; the contract pays the cumulative amount less what
\* it already paid and emits Claimed with the amount paid.
Claim(u, t) ==
  \E leaf \in BagToSet(root) :
    /\ leaf[1] = u /\ leaf[2] = t
    /\ leaf[3] > claimedOnChain[u][t]
    /\ getDistributorTokenBalance(t) >= leaf[3] - claimedOnChain[u][t]
    /\ Mine([ balanceAt[height + 1] EXCEPT ![t] = @ - (leaf[3] - claimedOnChain[u][t]) ])
    /\ claimedOnChain' = [ claimedOnChain EXCEPT ![u][t] = leaf[3] ]
    /\ claimedLogs' = Append(claimedLogs,
         [ blk |-> height + 1, recipient |-> u, token |-> t,
           amount |-> leaf[3] - claimedOnChain[u][t] ])
    /\ UNCHANGED << shares, depositLogs, root, cid, lastProcessedBlock, inflowLogs >>
    /\ Foreign
    /\ UNCHANGED << storeVars, roundVars, histVars, proofFile >>



\* The store does not authenticate content: it may serve, for the published
\* CID, a blob with a forged amount (tree rebuilt to match) or without values.
\* The store is read when an invocation starts, so it is altered between
\* invocations.
Forged(dist) ==
  LET v == [ dist.values EXCEPT ![1] = << @[1], @[2], toString(BigInt(@[3]) + 1) >> ]
  IN [ dist EXCEPT !.values = v, !.tree = LeafBag(v) ]

Emptied(dist) == [ dist EXCEPT !.values = << >> ]

Tamper ==
  /\ pc = "idle"
  /\ faultCount < MaxFaults
  /\ cid # 0
  /\ \E served \in { Forged(uploaded[cid]), Emptied(uploaded[cid]) } :
       store' = [ store EXCEPT ![cid] = served ]
  /\ faultCount' = faultCount + 1
  /\ UNCHANGED << uploaded, chainVars, histVars, proofFile, chainChanged >>
  /\ UNCHANGED << pc, outcome, runs, options, previousInfo, previousDistribution,
                  currentBlock, users, totalSupply, tokQueue, allClaims,
                  totalDistributed, result, faults, roundAlloc, roundDistributable,
                  roundActual, roundStart >>

\* ------------------------------------------------- generateDistribution
\* Set insertion order: items not yet present are appended.
RECURSIVE AddAll(_, _)
AddAll(set, items) ==
  IF items = << >> THEN set
  ELSE AddAll(IF Head(items) \in Range(set) THEN set ELSE Append(set, Head(items)),
              Tail(items))

Positions(s) == [ i \in 1..Len(s) |-> i ]

\* What a log scan may fail to decode: nothing, or the newest fetched log.
DecodeFaults(fetched) ==
  {{}} \cup { {i} : i \in { j \in fetched : \A k \in fetched : k <= j } }

DepositsFetched(fromBlock, toBlock) ==
  { i \in DOMAIN depositLogs :
      depositLogs[i].blk >= fromBlock /\ depositLogs[i].blk <= toBlock }

\* getWrapperUsers(fromBlock, toBlock); a log that fails to parse is skipped.
getWrapperUsers(fromBlock, toBlock, undecodable) ==
  LET parsed == SelectSeq(Positions(depositLogs),
                  LAMBDA i : i \in DepositsFetched(fromBlock, toBlock) \ undecodable)
      owners == [ k \in DOMAIN parsed |-> depositLogs[parsed[k]].owner ]
  IN SelectSeq(AddAll(<< >>, owners), LAMBDA a : a # ZeroAddress)

ClaimedFetched(tokenAddr, fromBlock) ==
  { i \in DOMAIN claimedLogs :
      claimedLogs[i].token = tokenAddr /\ claimedLogs[i].blk >= fromBlock }

\* getClaimedAmountSinceLastReport(tokenAddr, fromBlock, 'latest'); a log that
\* fails to parse is skipped.
getClaimedAmountSinceLastReport(tokenAddr, fromBlock, undecodable) ==
  SumOver([ i \in DOMAIN claimedLogs |-> claimedLogs[i].amount ],
          ClaimedFetched(tokenAddr, fromBlock) \ undecodable)

\* getDistributorBalanceAtBlock(tokenAddr, blockNumber)
getDistributorBalanceAtBlock(tokenAddr, blockNumber) ==
  balanceAt[blockNumber + 1][tokenAddr]

\* calculateDistributableAmount(tokenAddr, previousDistribution)
calculateDistributableAmount(tokenAddr, prev, undecodable) ==
  LET currentBalance == getDistributorTokenBalance(tokenAddr)
  IN IF prev = None THEN currentBalance
     ELSE LET claimedAmount == getClaimedAmountSinceLastReport(
                                 tokenAddr, prev[1].blockNumber + 1, undecodable)
              previousBalance == getDistributorBalanceAtBlock(
                                   tokenAddr, prev[1].blockNumber)
              newDistributableAmount ==
                currentBalance - (previousBalance - claimedAmount)
          IN IF newDistributableAmount > 0 THEN newDistributableAmount ELSE 0

\* Whether the cid() / root() read of an invocation fails.  At genesis a failed
\* read returns what a successful one does, so it is drawn once something is
\* published.
ReadFaults == IF cid = 0 THEN {FALSE} ELSE BOOLEAN

\* getPreviousDistributionInfo(): null at genesis, and null when a read fails.
getPreviousDistributionInfo(rpcFails) ==
  IF rpcFails THEN None
  ELSE IF cid = 0 \/ root = ZeroHash THEN None
  ELSE Some([ cid |-> cid, merkleRoot |-> root ])

\* The previousClaims map: the amount of the (recipient, token) row, 0 if none.
PreviousAmount(prev, user, tokenAddr) ==
  IF prev = None THEN 0
  ELSE LET rows == { i \in DOMAIN prev[1].values :
                       prev[1].values[i][1] = user /\ prev[1].values[i][2] = tokenAddr }
       IN IF rows = {} THEN 0
          ELSE BigInt(prev[1].values[CHOOSE i \in rows : \A j \in rows : j <= i][3])

\* Math.floor(operatorFee * 100), the product taken in double arithmetic.
FeeBasisPoints(operatorFee) ==
  IF operatorFee \in BelowInDouble THEN operatorFee - 1 ELSE operatorFee

OperatorFeeAmount(distributableAmount, operatorFee) ==
  (distributableAmount * FeeBasisPoints(operatorFee)) \div 10000

\* The fee is computed and not taken off.
ActualDistributableFeeKept(distributableAmount, operatorFee) ==
  distributableAmount

ActualDistributable(distributableAmount, operatorFee) ==
  distributableAmount - OperatorFeeAmount(distributableAmount, operatorFee)

UserShare(effectiveBalance, supply) == (effectiveBalance * precision) \div supply

\* An allocation rounded up instead of truncated.
TokenAmountRoundedUp(actual, effectiveBalance, supply) ==
  (actual * UserShare(effectiveBalance, supply) + precision - 1) \div precision

\* The per-round allocation of a user with a positive wrapper balance.
TokenAmount(actual, effectiveBalance, supply) ==
  (actual * UserShare(effectiveBalance, supply)) \div precision

\* The invocation is over: the process exits and its locals are gone.
Ended(how) ==
  /\ pc' = "idle"
  /\ outcome' = how
  /\ previousInfo' = None
  /\ previousDistribution' = None
  /\ currentBlock' = 0
  /\ users' = << >>
  /\ totalSupply' = 0
  /\ tokQueue' = << >>
  /\ allClaims' = << >>
  /\ totalDistributed' = << >>
  /\ result' = None
  /\ roundAlloc' = ZeroAlloc
  /\ roundDistributable' = NoAmounts
  /\ roundActual' = NoAmounts

\* Lines 45-122: previous distribution, block numbers, the user set, supply.
StartRound(rpcFails, undecodable) ==
  /\ pc = "idle"
  /\ runs < MaxRuns
  /\ runs' = runs + 1
  /\ faultCount + (IF rpcFails THEN 1 ELSE 0) + Cardinality(undecodable) <= MaxFaults
  /\ faultCount' = faultCount + (IF rpcFails THEN 1 ELSE 0) + Cardinality(undecodable)
  /\ faults' = [ rpc |-> rpcFails, decode |-> undecodable # {} ]
  /\ roundStart' = [ root |-> root, cid |-> cid, uploads |-> Len(uploaded) ]
  /\ chainChanged' = FALSE
  /\ LET info == getPreviousDistributionInfo(rpcFails)
         prev == IF info = None THEN None ELSE Some(store[info[1].cid])
         newUsers == getWrapperUsers(lastProcessedBlock, height, undecodable)
         prevUsers == IF prev = None THEN << >>
                      ELSE [ i \in DOMAIN prev[1].values |-> prev[1].values[i][1] ]
     IN IF prev # None /\ ~validatePreviousDistribution(prev[1], info[1].merkleRoot)
        THEN Ended("validation-failure")
        ELSE /\ pc' = "tokens"
             /\ outcome' = "none"
             /\ previousInfo' = info
             /\ previousDistribution' = prev
             /\ currentBlock' = height
             /\ users' = AddAll(AddAll(<< >>, prevUsers), newUsers)
             /\ totalSupply' = SumOver(shares, Users)
             /\ tokQueue' = tokenList
             /\ allClaims' = << >>
             /\ totalDistributed' = << >>
             /\ result' = None
             /\ roundAlloc' = ZeroAlloc
             /\ roundDistributable' = NoAmounts
             /\ roundActual' = NoAmounts
  /\ UNCHANGED << options, chainVars, storeVars, histVars, proofFile >>

\* previousDistribution.totalDistributed[tokenAddr] || '0'
PreviousTotal(prev, tokenAddr) ==
  IF prev = None THEN 0
  ELSE IF tokenAddr \in DOMAIN prev[1].totalDistributed
       THEN BigInt(prev[1].totalDistributed[tokenAddr])
       ELSE BigInt(<< 0 >>)

SetTotal(totals, tokenAddr, amount) ==
  [ t \in DOMAIN totals \cup {tokenAddr} |->
      IF t = tokenAddr THEN toString(amount) ELSE totals[t] ]

\* The amount the user loop (lines 151-175) gives a user for one token: nothing
\* without a wrapper balance, nothing when the allocation truncates to zero.
NewAmount(user, actual) ==
  IF shares[user] > 0 /\ TokenAmount(actual, shares[user], totalSupply) > 0
  THEN TokenAmount(actual, shares[user], totalSupply)
  ELSE 0

\* The claims the user loop pushes for one token, in user order.
TokenClaims(tokenAddr, actual, prev) ==
  LET paid == SelectSeq(users, LAMBDA u : NewAmount(u, actual) > 0)
  IN [ k \in DOMAIN paid |->
         [ recipient |-> paid[k],
           token     |-> tokenAddr,
           amount    |-> PreviousAmount(prev, paid[k], tokenAddr)
                           + NewAmount(paid[k], actual) ] ]

\* One iteration of the token loop (lines 125-178).
ProcessToken(undecodable) ==
  /\ pc = "tokens"
  /\ tokQueue # << >>
  /\ faultCount + Cardinality(undecodable) <= MaxFaults
  /\ faultCount' = faultCount + Cardinality(undecodable)
  /\ LET tokenAddr == Head(tokQueue)
         distributableAmount ==
           calculateDistributableAmount(tokenAddr, previousDistribution, undecodable)
         actual == ActualDistributable(distributableAmount, options.operatorFee)
     IN IF distributableAmount <= 0
        THEN /\ totalDistributed' =
                  SetTotal(totalDistributed, tokenAddr,
                           PreviousTotal(previousDistribution, tokenAddr))
             /\ tokQueue' = Tail(tokQueue)
             /\ roundDistributable' =
                  [ roundDistributable EXCEPT ![tokenAddr] = distributableAmount ]
             /\ faults' = [ faults EXCEPT !.decode = @ \/ undecodable # {} ]
             /\ UNCHANGED << pc, outcome, allClaims, roundAlloc, roundActual,
                             previousInfo, previousDistribution, currentBlock, users,
                             totalSupply, result >>
        ELSE IF totalSupply = 0 /\ \E i \in DOMAIN users : shares[users[i]] > 0
        THEN \* BigInt division by zero throws
             /\ Ended("error")
             /\ faults' = [ faults EXCEPT !.decode = @ \/ undecodable # {} ]
        ELSE /\ allClaims' =
                  allClaims \o TokenClaims(tokenAddr, actual, previousDistribution)
             /\ totalDistributed' =
                  SetTotal(totalDistributed, tokenAddr,
                           PreviousTotal(previousDistribution, tokenAddr)
                             + SumOver([ u \in Users |->
                                         IF u \in Range(users)
                                         THEN NewAmount(u, actual) ELSE 0 ], Users))
             /\ roundAlloc' = [ u \in Users |->
                  [ roundAlloc[u] EXCEPT ![tokenAddr] =
                      IF u \in Range(users) THEN NewAmount(u, actual) ELSE 0 ] ]
             /\ roundActual' = [ roundActual EXCEPT ![tokenAddr] = actual ]
             /\ roundDistributable' =
                  [ roundDistributable EXCEPT ![tokenAddr] = distributableAmount ]
             /\ tokQueue' = Tail(tokQueue)
             /\ faults' = [ faults EXCEPT !.decode = @ \/ undecodable # {} ]
             /\ UNCHANGED << pc, outcome, previousInfo, previousDistribution,
                             currentBlock, users, totalSupply, result >>
  /\ UNCHANGED << runs, options, roundStart >>
  /\ UNCHANGED << chainVars, storeVars, histVars, proofFile, chainChanged >>

\* ipfsService.uploadDistribution: the CID is the address of the content.
UploadCid(content) ==
  IF \E c \in DOMAIN uploaded : uploaded[c] = content
  THEN CHOOSE c \in DOMAIN uploaded : uploaded[c] = content
  ELSE Len(uploaded) + 1

\* Lines 180-201: sort, build the tree, assemble the blob, upload it.
FinishGenerate ==
  /\ pc = "tokens"
  /\ tokQueue = << >>
  /\ LET sorted == SortClaims(allClaims)
         values == MerkleValues(sorted)
         distribution ==
           [ tree             |-> MerkleRoot(values),
             values           |-> values,
             prevTreeCid      |-> IF previousInfo = None THEN 0 ELSE previousInfo[1].cid,
             blockNumber      |-> currentBlock,
             totalDistributed |-> totalDistributed ]
         newCid == UploadCid(distribution)
     IN IF NoClaims(sorted)
        THEN /\ Ended("no-claims")
             /\ UNCHANGED << store, uploaded >>
        ELSE /\ pc' = "submit"
             /\ allClaims' = sorted
             /\ result' = Some([ distribution |-> distribution,
                                 merkleRoot   |-> MerkleRoot(values),
                                 cid          |-> newCid ])
             /\ IF newCid > Len(uploaded)
                THEN /\ uploaded' = Append(uploaded, distribution)
                     /\ store' = Append(store, distribution)
                ELSE UNCHANGED << store, uploaded >>
             /\ UNCHANGED << outcome, previousInfo, previousDistribution, currentBlock,
                             users, totalSupply, tokQueue, totalDistributed,
                             roundAlloc, roundDistributable, roundActual >>
  /\ UNCHANGED << runs, options, faults, roundStart, faultCount >>
  /\ UNCHANGED << chainVars, histVars, proofFile, chainChanged >>

\* The generate command after generateDistribution returned: setMerkleRoot,
\* which throws without a signer and otherwise awaits the receipt.  The
\* contract records the block of the call as lastProcessedBlock.
SetMerkleRoot ==
  /\ pc = "submit"
  /\ IF ~options.hasSigner
     THEN /\ Ended("signer-required")
          /\ UNCHANGED << chainVars, histVars >>
     ELSE /\ Mine(balanceAt[height + 1])
          /\ root' = result[1].merkleRoot
          /\ cid' = result[1].cid
          /\ lastProcessedBlock' = height + 1
          /\ Ended("published")
          /\ prevPublished' = IF cid = 0 THEN None ELSE Some(uploaded[cid])
          /\ lastPublished' = Some(result[1].distribution)
          /\ lastAlloc' = roundAlloc
          /\ lastActual' = roundActual
          /\ sumDistributable' = [ t \in Tokens |->
                                    sumDistributable[t] + roundDistributable[t] ]
          /\ sumAlloc' = [ u \in Users |-> [ t \in Tokens |->
                             sumAlloc[u][t] + roundAlloc[u][t] ] ]
          /\ rounds' = rounds + 1
          /\ UNCHANGED << shares, depositLogs, claimedLogs, claimedOnChain, inflowLogs,
                          foreignTxs, midRoundTxs >>
  /\ UNCHANGED << runs, options, faults, roundStart, faultCount >>
  /\ UNCHANGED << storeVars, proofFile, chainChanged >>

\* ---------------------------------------------------------- proof command
\* IPFSService.validateCID: CID.parse rejects the empty string.
validateCID(c) == c # 0

\* StandardMerkleTree.load(...).getProof(index): the leaf of the value must be
\* a leaf of the loaded tree.
CanProve(dist, index) == BagIn(Leaf(dist.values[index]), dist.tree)

\* merkleTree.getProof(index): the path from the leaf to the root, modelled by
\* the leaves it commits to besides the leaf itself.
getProof(dist, index) == dist.tree (-) SetToBag({Leaf(dist.values[index])})

\* The root a proof implies for a leaf (processProof of the tree library).
processProof(leaf, proof) == SetToBag({leaf}) (+) proof

\* verifyProof(value, proof, root): builds the tree of the single value and
\* verifies the proof in it; the root argument is not read.
verifyProof(value, proof, onChainRoot) ==
  processProof(Leaf(value), proof) = MerkleRoot(<< value >>)

\* generateProofForRecipient: findIndex of the first row of the recipient
\* (0 stands for -1, not found).
recipientIndex(dist, recipient) ==
  LET rows == { i \in DOMAIN dist.values : dist.values[i][1] = recipient }
  IN IF rows = {} THEN 0 ELSE CHOOSE i \in rows : \A j \in rows : i <= j

\* proof --index N: loadDistribution, generateProofByIndex, write proof.json.
ProofCommand(index) ==
  /\ validateCID(cid)
  /\ LET distribution == store[cid]
     IN /\ index \in DOMAIN distribution.values
        /\ CanProve(distribution, index)
        /\ proofFile' = Some([ recipient  |-> distribution.values[index][1],
                               token      |-> distribution.values[index][2],
                               amount     |-> distribution.values[index][3],
                               proof      |-> getProof(distribution, index),
                               merkleRoot |-> root ])
  /\ UNCHANGED << chainVars, storeVars, roundVars, histVars, chainChanged >>

\* proof --address A: the same with generateProofForRecipient.
ProofForAddress(recipient) ==
  /\ validateCID(cid)
  /\ recipientIndex(store[cid], recipient) # 0
  /\ ProofCommand(recipientIndex(store[cid], recipient))

\* ------------------------------------------------------------------ spec
Next ==
  \/ \E t \in Tokens, a \in InflowAmounts : Inflow(t, a)
  \/ \E u \in Users, a \in DepositAmounts : Deposit(u, a)
  \/ \E u \in Users : Withdraw(u)
  \/ \E u \in Users, t \in Tokens : Claim(u, t)
  \/ Tamper
  \/ \E r \in ReadFaults,
        bad \in DecodeFaults(DepositsFetched(lastProcessedBlock, height)) :
       StartRound(r, bad)
  \/ \E bad \in DecodeFaults(IF previousDistribution = None \/ tokQueue = << >> THEN {}
                             ELSE ClaimedFetched(Head(tokQueue),
                                    previousDistribution[1].blockNumber + 1)) :
       ProcessToken(bad)
  \/ FinishGenerate
  \/ SetMerkleRoot

Spec == Init /\ [][Next]_vars

\* The same system with the proof command run against it at any moment.
NextProof ==
  \/ Next
  \/ \E i \in 1..(NumUsers * NumTokens) : ProofCommand(i)
  \/ \E u \in Users : ProofForAddress(u)

SpecProof == Init /\ [][NextProof]_vars

\* Runs of the operator alone, without faults, on any chain at block 0.
NextRound ==
  \/ StartRound(FALSE, {})
  \/ ProcessToken({})
  \/ FinishGenerate
  \/ SetMerkleRoot

SpecRound == InitAnyChain /\ [][NextRound]_vars

\* ------------------------------------------------------------ properties
\* The amount of the (recipient, token) row of a blob's values; None if absent.
RowAmount(dist, u, t) ==
  LET rows == { i \in DOMAIN dist.values :
                  dist.values[i][1] = u /\ dist.values[i][2] = t }
  IN IF rows = {} THEN None
     ELSE Some(BigInt(dist.values[CHOOSE i \in rows : TRUE][3]))

\* The sum of the amounts of a token's rows in a blob's values.
RowSum(dist, t) ==
  SeqSum([ i \in DOMAIN dist.values |->
             IF dist.values[i][2] = t THEN BigInt(dist.values[i][3]) ELSE 0 ])

\* No read failed, no log was undecodable and the store served what was uploaded.
FaultFree == faultCount = 0

\* C1 (carry-forward): of two consecutive published rounds, every row of the
\* earlier blob is a row of the later one, and with exactly the earlier amount
\* when the pair got no new allocation in the later round.
CarryForward ==
  (FaultFree /\ prevPublished # None) =>
    \A u \in Users, t \in Tokens :
      RowAmount(prevPublished[1], u, t) # None =>
        /\ RowAmount(lastPublished[1], u, t) # None
        /\ lastAlloc[u][t] = 0 =>
             RowAmount(lastPublished[1], u, t) = RowAmount(prevPublished[1], u, t)

\* C2 (I1, cumulative sum): every row of the blob of the latest published round
\* stores the sum of the pair's allocations over all published rounds.
CumulativeSum ==
  (FaultFree /\ lastPublished # None) =>
    \A u \in Users, t \in Tokens :
      RowAmount(lastPublished[1], u, t) # None =>
        RowAmount(lastPublished[1], u, t) = Some(sumAlloc[u][t])

\* C3 (I4): in the blob generateDistribution returns, totalDistributed[token]
\* is the sum of the amounts of the token's rows in values.
TotalDistributedIsRowSum ==
  (FaultFree /\ pc = "submit") =>
    \A t \in DOMAIN result[1].distribution.totalDistributed :
      BigInt(result[1].distribution.totalDistributed[t])
        = RowSum(result[1].distribution, t)

\* The claims an invocation computed, as the rows they encode to.
ClaimRows(claims) ==
  [ i \in DOMAIN claims |->
      << claims[i].recipient, claims[i].token, claims[i].amount >> ]

\* The rows of a blob's values, amounts read back as numbers.
BlobRows(dist) ==
  [ i \in DOMAIN dist.values |->
      << dist.values[i][1], dist.values[i][2], BigInt(dist.values[i][3]) >> ]

\* C4 (I2): the root handed to setMerkleRoot is the root of the tree over the
\* values of the blob uploaded under the submitted cid, one entry per computed
\* claim; so the blob uploaded under the on-chain cid rebuilds to the on-chain
\* root and passes validatePreviousDistribution against it.
RootMatchesUploadedValues ==
  /\ pc = "submit" =>
       /\ result[1].merkleRoot = LeafBag(uploaded[result[1].cid].values)
       /\ BlobRows(uploaded[result[1].cid]) = ClaimRows(allClaims)
  /\ cid # 0 =>
       /\ root = LeafBag(uploaded[cid].values)
       /\ validatePreviousDistribution(uploaded[cid], root)

\* C4 witness: a second round passed the validation of the first round's blob.
SecondRoundValidated ==
  /\ rounds >= 1
  /\ pc = "tokens"
  /\ previousDistribution # None
  /\ previousDistribution[1] = uploaded[cid]

\* Tokens whose iteration of the token loop is over in the running invocation.
Processed ==
  IF pc \in {"tokens", "submit"} THEN Range(tokenList) \ Range(tokQueue) ELSE {}

\* C5 (I3): in a round during which the chain does not change, for each token
\* the round's new allocations sum to at most the actual distributable, which
\* is at most the new distributable.
AllocationsWithinDistributable ==
  ~chainChanged =>
    \A t \in Processed :
      /\ SumOver([ u \in Users |-> roundAlloc[u][t] ], Users) <= roundActual[t]
      /\ roundActual[t] <= roundDistributable[t]

\* C5 witness: a round on an unchanged chain that took a fee and left dust.
FeeTakenAndDustLeft ==
  /\ ~chainChanged
  /\ pc = "submit"
  /\ \E t \in Tokens :
       /\ 0 < SumOver([ u \in Users |-> roundAlloc[u][t] ], Users)
       /\ SumOver([ u \in Users |-> roundAlloc[u][t] ], Users) < roundActual[t]
       /\ roundActual[t] < roundDistributable[t]

\* What was transferred into the distributor for a token after a block.
NetInflowAfter(t, blockNumber) ==
  SumOver([ i \in DOMAIN inflowLogs |-> inflowLogs[i].amount ],
          { i \in DOMAIN inflowLogs :
              inflowLogs[i].token = t /\ inflowLogs[i].blk > blockNumber })

\* The Claimed amounts of a token emitted after a block.
ClaimsSince(t, blockNumber) ==
  SumOver([ i \in DOMAIN claimedLogs |-> claimedLogs[i].amount ],
          { i \in DOMAIN claimedLogs :
              claimedLogs[i].token = t /\ claimedLogs[i].blk > blockNumber })

Max0(n) == IF n > 0 THEN n ELSE 0

NoInflowIdempotence ==
  ( /\ FaultFree
    /\ options.hasSigner
    /\ pc = "idle"
    /\ outcome # "none"
    /\ roundStart.cid # 0
    /\ \A t \in Tokens :
         NetInflowAfter(t, uploaded[roundStart.cid].blockNumber) = 0 )
  => /\ outcome = "published"
     /\ lastPublished[1].values = uploaded[roundStart.cid].values
     /\ root = roundStart.root

\* The root rebuilt from the values of a blob; no root for an empty list.
RebuiltRoot(dist) ==
  IF dist.values = << >> THEN None ELSE Some(LeafBag(dist.values))

\* C8 (previous-round validation): an invocation that reads a non-empty cid
\* and a non-zero root and downloads a blob whose rebuilt root is not that root
\* ends with a validation failure in the step that found it, with the store,
\* the on-chain root and the cid as they were; an invocation that goes on with
\* a previous blob holds one that rebuilds to the root it read.
PreviousRoundValidation ==
  /\ [][ ( /\ runs' = runs + 1
           /\ ~faults'.rpc
           /\ cid # 0 /\ root # ZeroHash
           /\ RebuiltRoot(store[cid]) # Some(root) )
         => ( /\ outcome' = "validation-failure"
              /\ pc' = "idle"
              /\ result' = None
              /\ UNCHANGED << store, uploaded, root, cid, lastProcessedBlock >> ) ]_vars
  /\ [](previousDistribution # None =>
          RebuiltRoot(previousDistribution[1]) = Some(previousInfo[1].merkleRoot))

\* C8 witness: an invocation ended with a validation failure.
ValidationFailed ==
  /\ outcome = "validation-failure"
  /\ cid # 0
  /\ RebuiltRoot(store[cid]) # Some(root)

\* C9 (errors surface upward): an invocation in which the cid() / root() read
\* failed or a fetched log did not decode is over, and ended with an error.
ErrorsSurface ==
  (faults.rpc \/ faults.decode) => (pc = "idle" /\ outcome = "error")

\* The value [recipient, token, amount] a proof file was written for.
ProofValue(file) == << file.recipient, file.token, file.amount >>

\* C10 (the proof flow authenticates the blob): a proof written to the output
\* file leads from its leaf to the on-chain root written with it.
ProofMatchesOnChainRoot ==
  proofFile # None =>
    processProof(Leaf(ProofValue(proofFile[1])), proofFile[1].proof)
      = proofFile[1].merkleRoot

\* C11 (proof round trip): for a proof written from a blob the engine built,
\* verifyProof with the written value, proof and root is true, and it is false
\* with the amount of the value replaced by another amount.
ProofRoundTrip ==
  (FaultFree /\ proofFile # None) =>
    LET file == proofFile[1]
        other == << file.recipient, file.token, toString(BigInt(file.amount) + 1) >>
    IN /\ verifyProof(ProofValue(file), file.proof, file.merkleRoot)
       /\ ~verifyProof(other, file.proof, file.merkleRoot)

\* C12 (empty round): a run whose token loop ends without a claim row fails with
\* 'No claims to process' in the step that builds the tree, with the store, the
\* on-chain root and the cid as they were; no blob without rows is ever
\* uploaded and no run reaches setMerkleRoot without rows.
EmptyRoundFails ==
  /\ [][ (pc = "tokens" /\ tokQueue = << >> /\ allClaims = << >> /\ pc' # "tokens")
         => ( /\ outcome' = "no-claims"
              /\ pc' = "idle"
              /\ result' = None
              /\ UNCHANGED << store, uploaded, root, cid, lastProcessedBlock >> ) ]_vars
  /\ [](\A c \in DOMAIN uploaded : uploaded[c].values # << >>)
  /\ [](pc = "submit" => result[1].distribution.values # << >>)

\* C12 witness: a first run that failed for want of claims, with nothing
\* uploaded and nothing published.
EmptyRoundFailed ==
  /\ outcome = "no-claims"
  /\ runs = 1
  /\ uploaded = << >>
  /\ cid = 0

\* The allocation the apportioner formula gives a balance, in exact integer
\* arithmetic with the typed percentage taken as the decimal it denotes.
ExpectedActual(newDistributable, feeHundredths) ==
  newDistributable - ((newDistributable * feeHundredths) \div 10000)

ExpectedAllocation(actual, bal, supply) ==
  IF bal = 0 THEN 0 ELSE (actual * ((bal * precision) \div supply)) \div precision

\* C13 (apportioner result): for every token with a new distributable and every
\* candidate, actual is the distributable less the fee at floor(percent * 100)
\* basis points and the allocation is floor(actual * floor(bal * 1e18 / supply)
\* / 1e18); a row is emitted iff the balance and the allocation are positive; a
\* sole holder of the supply receives exactly actual, and balances 1e18 and
\* 3e18 split 1e18 at fee 0 into 0.25e18 and 0.75e18.
ApportionerResult ==
  \A t \in Processed :
    roundDistributable[t] > 0 =>
      /\ roundActual[t] = ExpectedActual(roundDistributable[t], options.operatorFee)
      /\ \A i \in DOMAIN users :
           LET u == users[i]
               expected == ExpectedAllocation(roundActual[t], shares[u], totalSupply)
           IN /\ roundAlloc[u][t] = expected
              /\ (\E k \in DOMAIN allClaims :
                    allClaims[k].recipient = u /\ allClaims[k].token = t)
                   <=> (shares[u] > 0 /\ expected > 0)
              /\ (shares[u] > 0 /\ shares[u] = totalSupply)
                   => roundAlloc[u][t] = roundActual[t]
      /\ ( /\ users = << 1, 2 >>
           /\ shares = [ u \in Users |-> IF u = 1 THEN precision ELSE 3 * precision ]
           /\ roundDistributable[t] = precision
           /\ options.operatorFee = 0 )
         => ( /\ roundAlloc[1][t] = (250 * precision) \div 1000
              /\ roundAlloc[2][t] = (750 * precision) \div 1000 )

\* Seed scenario 2, after its genesis round is published: recipients 1 and 2
\* with wrapper balances 1e18 and 3e18 (precision and 3 * precision here, one
\* unit being 1e15), one token funded with 1e18, operator fee 10 percent.
SeedScenario2 ==
  /\ rounds = 1
  /\ lastPublished[1].prevTreeCid = 0
  /\ shares = [ u \in Users |-> IF u = 1 THEN precision
                               ELSE IF u = 2 THEN 3 * precision ELSE 0 ]
  /\ depositLogs = << [ blk |-> 0, owner |-> 1 ], [ blk |-> 0, owner |-> 2 ] >>
  /\ tokenList = << 1 >>
  /\ balanceAt[1][1] = precision
  /\ options.operatorFee = 1000

\* C14 as stated: the published amounts are 225000000000000000 and
\* 674999999999999999 and totalDistributed is 899999999999999999, that is
\* 0.225e18, 0.675e18 - 1 and 0.9e18 - 1.
SeedScenario2AsStated ==
  SeedScenario2 =>
    /\ RowAmount(lastPublished[1], 1, 1) = Some((225 * precision) \div 1000)
    /\ RowAmount(lastPublished[1], 2, 1) = Some((675 * precision) \div 1000 - 1)
    /\ BigInt(lastPublished[1].totalDistributed[1]) = (900 * precision) \div 1000 - 1

\* C14 (seed scenario 2), amended: the published amounts are 0.225e18 and
\* 0.675e18 (225000000000000000 and 675000000000000000) and totalDistributed
\* is 0.9e18 (900000000000000000); nothing is truncated.
SeedScenario2Amounts ==
  SeedScenario2 =>
    /\ Len(lastPublished[1].values) = 2
    /\ RowAmount(lastPublished[1], 1, 1) = Some((225 * precision) \div 1000)
    /\ RowAmount(lastPublished[1], 2, 1) = Some((675 * precision) \div 1000)
    /\ BigInt(lastPublished[1].totalDistributed[1]) = (900 * precision) \div 1000

\* C14 witness: the scenario's round is published.
SeedScenario2Published == SeedScenario2 /\ outcome = "published"

\* The amount a blob holds for a pair, 0 when the pair is absent.
AmountOrZero(blob, u, t) ==
  IF RowAmount(blob, u, t) = None THEN 0 ELSE RowAmount(blob, u, t)[1]

\* C15 (I1, round-over-round monotonicity): of two consecutive published
\* rounds, every pair present in the later blob has an amount at least the
\* pair's amount in the earlier blob, taken as 0 when the pair is absent there.
RoundOverRoundMonotone ==
  prevPublished # None =>
    \A u \in Users, t \in Tokens :
      RowAmount(lastPublished[1], u, t) # None =>
        AmountOrZero(lastPublished[1], u, t) >= AmountOrZero(prevPublished[1], u, t)

\* The same with no failed read: the pair's amount is the previous one plus a
\* non-negative allocation.
RoundOverRoundMonotoneFaultFree == FaultFree => RoundOverRoundMonotone

\* C16 (snapshot pinning of wrapper reads): whatever is mined while a round is
\* being computed, for each token the round's allocations sum to at most the
\* actual distributable.
AllocationsWithinActualUnderInterleaving ==
  FaultFree =>
    \A t \in Processed :
      SumOver([ u \in Users |-> roundAlloc[u][t] ], Users) <= roundActual[t]

\* Everything ever transferred into the distributor in token t.
TotalInflow(t) ==
  SumOver([ i \in DOMAIN inflowLogs |-> inflowLogs[i].amount ],
          { i \in DOMAIN inflowLogs : inflowLogs[i].token = t })

\* C17 (inflow is distributed at most once): for each token the new
\* distributable amounts of the published rounds sum to at most the total
\* inflow into the distributor, whatever is mined while rounds run.
InflowDistributedAtMostOnce ==
  FaultFree => \A t \in Tokens : sumDistributable[t] <= TotalInflow(t)

\* What the latest published round left undistributed of a token's actual
\* distributable.
LastDust(t) == lastActual[t] - SumOver([ u \in Users |-> lastAlloc[u][t] ], Users)

\* C18 (dust is re-distributed): in a round that follows a published round,
\* with no inflow of a token after that round's snapshot, the token's new
\* distributable is the dust the published round left undistributed.
DustRedistributed ==
  ( /\ FaultFree
    /\ ~chainChanged
    /\ lastPublished # None
    /\ previousDistribution = lastPublished )
  => \A t \in Processed :
       NetInflowAfter(t, previousDistribution[1].blockNumber) = 0 =>
         roundDistributable[t] = LastDust(t)

\* The code's behaviour in that case: nothing is distributable, the dust stays
\* in the contract.
DustStaysInContract ==
  ( /\ FaultFree
    /\ ~chainChanged
    /\ lastPublished # None
    /\ previousDistribution = lastPublished )
  => \A t \in Processed :
       NetInflowAfter(t, previousDistribution[1].blockNumber) = 0 =>
         roundDistributable[t] = 0

\* The candidates of the round together hold the whole wrapper supply.
CandidatesHoldSupply ==
  /\ totalSupply > 0
  /\ SumOver([ u \in Users |-> IF u \in Range(users) THEN shares[u] ELSE 0 ], Users)
       = totalSupply

\* C19 (dust bound): in a round whose candidates hold the entire wrapper
\* supply, what is left of a token's actual distributable after the
\* allocations is at most |candidates| - 1 units.
DustBound ==
  CandidatesHoldSupply =>
    \A t \in Processed :
      roundActual[t] - SumOver([ u \in Users |-> roundAlloc[u][t] ], Users)
        <= Cardinality(Range(users)) - 1

\* C20 (depositor coverage across rounds): in every round, each owner of a
\* Deposit log mined no later than the round's currentBlock who still holds a
\* wrapper balance is a candidate of the round.
DepositorsAreCandidates ==
  (FaultFree /\ pc = "tokens") =>
    \A i \in DOMAIN depositLogs :
      (depositLogs[i].blk <= currentBlock /\ shares[depositLogs[i].owner] > 0)
        => depositLogs[i].owner \in Range(users)

\* The scan-window part on its own: a Deposit mined after the previous round's
\* snapshot and no later than currentBlock makes its owner a candidate.
DepositsAfterSnapshotAreScanned ==
  (FaultFree /\ pc = "tokens" /\ previousDistribution # None) =>
    \A i \in DOMAIN depositLogs :
      ( /\ depositLogs[i].blk > previousDistribution[1].blockNumber
        /\ depositLogs[i].blk <= currentBlock
        /\ shares[depositLogs[i].owner] > 0 )
        => depositLogs[i].owner \in Range(users)

\* The blob the chain pointed to when the invocation started, if any.
PreviousBlob == IF roundStart.cid = 0 THEN None ELSE Some(uploaded[roundStart.cid])

\* The recipients of the previous blob's values.
PreviousRecipients ==
  IF PreviousBlob = None THEN {}
  ELSE { PreviousBlob[1].values[i][1] : i \in DOMAIN PreviousBlob[1].values }

\* The owners of the Deposit logs in blocks lastProcessedBlock..currentBlock.
WindowOwners ==
  { depositLogs[i].owner :
      i \in { j \in DOMAIN depositLogs :
                /\ depositLogs[j].blk >= lastProcessedBlock
                /\ depositLogs[j].blk <= currentBlock } }

\* C21 (recipient set): the candidate list of a round holds exactly the
\* recipients of the previous blob and the owners of the Deposit logs of
\* blocks lastProcessedBlock..currentBlock, the zero address dropped, each once.
CandidatesAreRecipientSet ==
  pc \in {"tokens", "submit"} =>
    /\ Range(users) = (PreviousRecipients \cup WindowOwners) \ {ZeroAddress}
    /\ \A i, j \in DOMAIN users : users[i] = users[j] => i = j
    /\ ZeroAddress \notin Range(users)

\* The same in invocations where no read failed and every log decoded.
CandidatesAreRecipientSetFaultFree == FaultFree => CandidatesAreRecipientSet

\* A round whose scan window holds a Deposit log of the zero address, a round
\* with recipients carried from the previous blob, and a round whose window
\* holds two logs of one owner.
ZeroOwnerInWindow == pc = "tokens" /\ ZeroAddress \in WindowOwners /\ users # << >>

RecipientsFromPreviousBlob ==
  pc = "tokens" /\ FaultFree /\ PreviousRecipients # {} /\ WindowOwners = {}

OwnerTwiceInWindow ==
  /\ pc = "tokens" /\ FaultFree
  /\ \E i, j \in DOMAIN depositLogs :
       /\ i # j /\ depositLogs[i].owner = depositLogs[j].owner
       /\ depositLogs[i].blk >= lastProcessedBlock /\ depositLogs[j].blk >= lastProcessedBlock
       /\ depositLogs[i].blk <= currentBlock /\ depositLogs[j].blk <= currentBlock

====
